---- MODULE Spec2Model ----
(***************************************************************************)
(* Model of src/pipewire/client/log.c: the process-wide debug log with its *)
(* trace ring buffer (do_logv), the consumer that drains it on the loop    *)
(* (on_trace_event), the loop attachment (do_set_loop) and the level       *)
(* filter (pw_log_set_level, pw_log_log, pw_log_logv).                     *)
(*                                                                         *)
(* Sizes are scaled down: the ring holds TRACE_BUFFER bytes and the line   *)
(* buffers LINE_SIZE bytes, in the source 16*1024 and 1024.  Cursors are   *)
(* uint32 in the source; the bound MaxPublished keeps them far below 2^31, *)
(* where the int32 difference of get_read_index is the plain difference.   *)
(***************************************************************************)
EXTENDS Integers, Sequences, FiniteSets, TLC

\* ------------------------------------------------------------- constants
\* #define TRACE_BUFFER (16*1024), scaled; a power of two
TRACE_BUFFER == 4
\* char text[1024], location[1024], scaled
LINE_SIZE == 3
\* enum spa_log_level: NONE = 0 ... TRACE = 5
SPA_LOG_LEVEL_NONE == 0
SPA_LOG_LEVEL_ERROR == 1
SPA_LOG_LEVEL_TRACE == 5
DEFAULT_LOG_LEVEL == SPA_LOG_LEVEL_ERROR
\* static const char *levels[] = { "-", "E", "W", "I", "D", "T", "*T*" }
levels == <<"-", "E", "W", "I", "D", "T", "*T*">>
NULL == 0
NUL == "\\0"
NL == "\\n"

\* ---------------------------------------------------------------- bounds
\* longest message a caller passes
MaxMsg == 3
\* total bytes the producers may put in the ring in one behaviour
MaxPublished == 5

Levels == SPA_LOG_LEVEL_NONE..SPA_LOG_LEVEL_TRACE
\* the loops the caller may attach to: one, which a call may attach again
\* while it is attached
Loops == {1}
ThreadIds == {1, 2}
Chars == {"a", "b"}
\* what a read past the end of location[] may find on the stack
Garbage == {"x", "y"}
Msgs == {[i \in 1..n |-> c] : n \in 0..MaxMsg, c \in Chars}

Min(a, b) == IF a < b THEN a ELSE b

VARIABLES
    pw_log_level,   \* the global threshold (line 31)
    log_level,      \* log.log.level (line 149)
    trace_rb,       \* log.trace_rb: [readindex, writeindex]
    trace_data,     \* log.trace_data: offset -> byte
    have_source,    \* log.have_source
    source,         \* log.source: [fd, loop]
    eventfds,       \* the open eventfd descriptors: fd -> counter
    polled,         \* loop -> the descriptors its poll set holds
    caller,         \* thread -> the frame of its pw_log_log call
    ev,             \* the frame of on_trace_event on the loop's thread
    sl,             \* the frame of do_set_loop
    err,            \* what the running dispatch has written to stderr
    published,      \* history: the byte published at each undrained position
    hist,           \* history: see NoHist
    producers       \* the threads that log in this behaviour

vars == <<pw_log_level, log_level, trace_rb, trace_data, have_source, source,
          eventfds, polled, caller, ev, sl, err, published, hist, producers>>

\* --------------------------------------------------- spa/ringbuffer.h
\* struct spa_ringbuffer {readindex, writeindex, size, mask}
rb_size == TRACE_BUFFER
rb_mask == TRACE_BUFFER - 1
\* index & mask, for a mask of the form 2^k - 1
BitAnd(index, mask) == index % (mask + 1)

\* spa_ringbuffer_get_write_index: *index = writeindex
spa_ringbuffer_get_write_index(rb) == rb.writeindex

\* spa_ringbuffer_write_data: memcpy in two pieces around the end
spa_ringbuffer_write_data(buffer, offset, data, len) ==
    LET first == Min(len, rb_size - offset)
    IN [o \in 0..(rb_size - 1) |->
          IF o >= offset /\ o < offset + first THEN data[o - offset + 1]
          ELSE IF len > first /\ o < len - first THEN data[first + o + 1]
          ELSE buffer[o]]

\* spa_ringbuffer_write_update: writeindex = index
spa_ringbuffer_write_update(rb, index) == [rb EXCEPT !.writeindex = index]

\* spa_ringbuffer_get_read_index: *index = readindex; return writeindex - readindex
spa_ringbuffer_get_read_index(rb) == rb.writeindex - rb.readindex

\* spa_ringbuffer_read_update: readindex = index
spa_ringbuffer_read_update(rb, index) == [rb EXCEPT !.readindex = index]

\* ------------------------------------------------------------- rendering
\* vsnprintf(text, sizeof(text), fmt, args): the string left in text[]
vsnprintf_text(msg) == SubSeq(msg, 1, Min(Len(msg), LINE_SIZE - 1))

\* the line "[%s][%s:%i %s()] %s\n" in full: label, location and text, newline
FullLine(level, text) == <<levels[level + 1]>> \o text \o <<NL>>

\* snprintf(location, sizeof(location), ...): what it returns
snprintf_size(level, text) == Len(FullLine(level, text))

\* snprintf(location, sizeof(location), ...): the string left in location[]
snprintf_location(level, text) ==
    SubSeq(FullLine(level, text), 1, Min(Len(FullLine(level, text)), LINE_SIZE - 1))

\* the size bytes write_data reads starting at location: the string, its
\* terminator, and past sizeof(location) whatever the stack holds
LocationBytes(location, size, g) ==
    [i \in 1..size |->
        IF i <= Len(location) THEN location[i]
        ELSE IF i = Len(location) + 1 THEN NUL
        ELSE g]

\* pw_log_level_enabled(lev): pw_log_level >= (lev)
pw_log_level_enabled(lev) == pw_log_level >= lev

\* ------------------------------------------------------------------ Init
IdleCall ==
    [pc |-> "idle", level |-> 0, enabled |-> FALSE,
     seen_source |-> FALSE, do_trace |-> FALSE, location |-> <<>>, size |-> 0, index |-> 0,
     g |-> NUL, out |-> <<>>]

IdleEvent == [pc |-> "idle", avail |-> 0, index |-> 0, first |-> 0, offset |-> 0]

IdleSetLoop == [pc |-> "idle", loop |-> NULL]

\* history: r0, w0: the cursors when the running dispatch began; quiet: no
\* producer has been on the trace path since; fresh: a record was published
\* since the last attach; stale_hi: the write cursor at the last detach, while
\* the read cursor is below it; threshold: the level of the last
\* pw_log_set_level
NoHist ==
    [r0 |-> 0, w0 |-> 0, quiet |-> TRUE, fresh |-> FALSE, stale_hi |-> 0,
     threshold |-> DEFAULT_LOG_LEVEL]

InitWith(threads) ==
    /\ pw_log_level = DEFAULT_LOG_LEVEL
    /\ log_level = DEFAULT_LOG_LEVEL
    /\ trace_rb = [readindex |-> 0, writeindex |-> 0]
    /\ trace_data = [o \in 0..(rb_size - 1) |-> NUL]
    /\ have_source = FALSE
    /\ source = [fd |-> 0, loop |-> NULL]
    /\ eventfds = [f \in {} |-> 0]
    /\ polled = [l \in Loops |-> {}]
    /\ caller = [t \in ThreadIds |-> IdleCall]
    /\ ev = IdleEvent
    /\ sl = IdleSetLoop
    /\ err = <<>>
    /\ published = <<>>
    /\ hist = NoHist
    /\ producers = threads

\* one thread logs, as the ring buffer's single-producer contract asks
Init == InitWith({1})

\* every thread logs: pw_log_log has no lock and any thread may call it
InitMP == InitWith(ThreadIds)

\* ------------------------------------------------------------ scheduling
\* A frame at "ret" holds what its call did, for the properties to read; the
\* return itself takes no time, so nothing else runs before it.
ReturnPending ==
    \/ ev.pc = "ret"
    \/ sl.pc = "ret"
    \/ \E t \in ThreadIds : caller[t].pc = "ret"

\* ------------------------------------------------ the producer (do_logv)
InTracePath(t) == caller[t].pc \in {"write", "update", "signal"}

\* history: a trace-path step taken while a dispatch runs makes it not quiet
Disturb == [hist EXCEPT !.quiet = @ /\ ev.pc = "idle"]

\* do_logv line 62: do_trace = (level == SPA_LOG_LEVEL_TRACE && l->have_source)
DoTraceDetached(level, hs) == level = SPA_LOG_LEVEL_TRACE
DoTraceAnyLevel(level, hs) == hs
DoTrace(level, hs) == level = SPA_LOG_LEVEL_TRACE /\ hs

\* do_logv line 79: fputs(location, stdout), on what the call has written
fputs_nothing(location, stream) == stream
fputs(location, stream) == Append(stream, location)

\* do_logv lines 62-63: level++ when do_trace, the index of the label
LabelLevelPlain(level, do_trace) == level
LabelLevel(level, do_trace) == IF do_trace THEN level + 1 ELSE level

\* do_logv lines 60-66 and the else branch 78-79: render, decide do_trace,
\* and either go on to the ring or fputs(location, stdout)
do_logv(t, level, msg) ==
    LET text == vsnprintf_text(msg)
        do_trace == DoTrace(level, have_source)
        lev == LabelLevel(level, do_trace)
        size == snprintf_size(lev, text)
        location == snprintf_location(lev, text)
        frame == [IdleCall EXCEPT !.level = level,
                                  !.enabled = TRUE,
                                  !.seen_source = have_source,
                                  !.do_trace = do_trace,
                                  !.location = location]
    IN /\ do_trace => trace_rb.writeindex + size <= MaxPublished
       /\ caller' = [caller EXCEPT ![t] =
              IF do_trace THEN [frame EXCEPT !.pc = "write", !.size = size]
              ELSE [frame EXCEPT !.pc = "ret", !.out = fputs(location, <<>>)]]
       /\ hist' = IF do_trace THEN Disturb ELSE hist

\* pw_log_log / pw_log_logv lines 198-234: the level filter, then do_logv
pw_log_log(t, level, msg) ==
    /\ ~ReturnPending
    /\ t \in producers
    /\ caller[t].pc = "idle"
    /\ IF pw_log_level_enabled(level)
       THEN do_logv(t, level, msg)
       ELSE /\ caller' = [caller EXCEPT ![t] =
                   [IdleCall EXCEPT !.pc = "ret", !.level = level]]
            /\ hist' = hist
    /\ UNCHANGED <<pw_log_level, log_level, trace_rb, trace_data, have_source,
                   source, eventfds, polled, ev, sl, err, published, producers>>

\* do_logv line 74: index & l->trace_rb.mask
WriteOffset(index) == BitAnd(index, rb_mask)

\* do_logv lines 72-74: get_write_index, write_data of size bytes of location
do_logv_write(t, g) ==
    /\ ~ReturnPending
    /\ caller[t].pc = "write"
    /\ LET index == spa_ringbuffer_get_write_index(trace_rb)
           c == caller[t]
       IN /\ trace_data' = spa_ringbuffer_write_data(trace_data,
                   WriteOffset(index),
                   LocationBytes(c.location, c.size, g), c.size)
          /\ caller' = [caller EXCEPT ![t].pc = "update", ![t].index = index,
                                      ![t].g = g]
    /\ hist' = Disturb
    /\ UNCHANGED <<pw_log_level, log_level, trace_rb, have_source, source,
                   eventfds, polled, ev, sl, err, published, producers>>

\* history: the bytes of a record at the cursor positions it was published at
Publish(pub, index, bytes) ==
    [i \in 1..(IF Len(pub) > index + Len(bytes) THEN Len(pub) ELSE index + Len(bytes)) |->
        IF i > index /\ i <= index + Len(bytes) THEN bytes[i - index]
        ELSE IF i <= Len(pub) THEN pub[i] ELSE NUL]

\* do_logv line 75: write_update(index + size) publishes the record
do_logv_update(t) ==
    /\ ~ReturnPending
    /\ caller[t].pc = "update"
    /\ LET c == caller[t]
       IN /\ trace_rb' = spa_ringbuffer_write_update(trace_rb, c.index + c.size)
          /\ published' = Publish(published, c.index,
                                  LocationBytes(c.location, c.size, c.g))
    /\ caller' = [caller EXCEPT ![t].pc = "signal"]
    /\ hist' = [Disturb EXCEPT !.fresh = TRUE]
    /\ UNCHANGED <<pw_log_level, log_level, trace_data, have_source, source,
                   eventfds, polled, ev, sl, err, producers>>

eventfd_write_lost(fds, fd) == fds

\* write(fd, &count, 8) with count = 1 on an eventfd: adds 1 to its counter;
\* on a descriptor that is not open it fails with EBADF and changes nothing
eventfd_write(fds, fd) ==
    IF fd \in DOMAIN fds THEN [fds EXCEPT ![fd] = @ + 1] ELSE fds

\* do_logv line 77: raise the wakeup on l->source.fd
do_logv_signal(t) ==
    /\ ~ReturnPending
    /\ caller[t].pc = "signal"
    /\ eventfds' = eventfd_write(eventfds, source.fd)
    /\ caller' = [caller EXCEPT ![t].pc = "ret"]
    /\ hist' = Disturb
    /\ UNCHANGED <<pw_log_level, log_level, trace_rb, trace_data, have_source,
                   source, polled, ev, sl, err, published, producers>>

\* the call returns to its caller (lines 80, 211, 234)
pw_log_return(t) ==
    /\ caller[t].pc = "ret"
    /\ caller' = [caller EXCEPT ![t] = IdleCall]
    /\ UNCHANGED <<pw_log_level, log_level, trace_rb, trace_data, have_source,
                   source, eventfds, polled, ev, sl, err, published, hist,
                   producers>>

\* pw_log_set_level lines 170-174
pw_log_set_level(level) ==
    /\ ~ReturnPending
    /\ pw_log_level' = level
    /\ log_level' = level
    /\ hist' = [hist EXCEPT !.threshold = level]
    /\ UNCHANGED <<trace_rb, trace_data, have_source, source, eventfds, polled,
                   caller, ev, sl, err, published, producers>>

\* ------------------------------------------- the consumer (on_trace_event)
\* entries of err: a byte read for cursor position pos, or a report
DataEntry(pos, b) == [k |-> "data", pos |-> pos, b |-> b, n |-> 0]
OverflowEntry(pos, n) == [k |-> "overflow", pos |-> pos, b |-> "", n |-> n]
ReadFailEntry == [k |-> "readfail", pos |-> 0, b |-> "", n |-> 0]

\* the loop calls the source's func when the descriptor it polls is readable
Readable ==
    \E l \in Loops : \E fd \in polled[l] :
        fd \in DOMAIN eventfds /\ eventfds[fd] > 0

\* on_trace_event lines 103-106: where control goes after the read; the
\* failure branch only prints and falls through to the loop
AfterReadFailReturns(ok) == IF ok THEN "avail" ELSE "ret"
AfterRead(ok) == "avail"

\* on_trace_event lines 103-104: read the counter of source->fd, which resets
\* it; a failed read is reported on stderr and the drain goes on
on_trace_event_read(ok) ==
    /\ ~ReturnPending
    /\ ev.pc = "idle"
    /\ sl.pc = "idle"
    /\ Readable
    /\ IF ok /\ source.fd \in DOMAIN eventfds
       THEN /\ eventfds' = [eventfds EXCEPT ![source.fd] = 0]
            /\ err' = <<>>
       ELSE /\ eventfds' = eventfds
            /\ err' = <<ReadFailEntry>>
    /\ ev' = [IdleEvent EXCEPT !.pc =
                 AfterRead(ok /\ source.fd \in DOMAIN eventfds)]
    /\ hist' = [hist EXCEPT !.r0 = trace_rb.readindex,
                            !.w0 = trace_rb.writeindex,
                            !.quiet = \A t \in ThreadIds : ~InTracePath(t)]
    /\ UNCHANGED <<pw_log_level, log_level, trace_rb, trace_data, have_source,
                   source, polled, caller, sl, published, producers>>

\* the number printed by "** trace overflow ** %d" (line 110)
OverflowCount(avail) == avail

\* on_trace_event line 111: index += avail - l->trace_rb.size
ResyncNone(index, avail) == index
Resync(index, avail) == index + (avail - rb_size)

\* on_trace_event lines 106-115: the loop test, the overflow branch, and the
\* offset and length of the first piece
on_trace_event_avail ==
    /\ ~ReturnPending
    /\ ev.pc = "avail"
    /\ LET avail0 == spa_ringbuffer_get_read_index(trace_rb)
           index0 == trace_rb.readindex
           over == avail0 > rb_size
           index == IF over THEN Resync(index0, avail0) ELSE index0
           avail == IF over THEN rb_size ELSE avail0
           offset == BitAnd(index, rb_mask)
       IN IF avail0 > 0
          THEN /\ ev' = [pc |-> "first", avail |-> avail, index |-> index,
                         first |-> Min(avail, rb_size - offset),
                         offset |-> offset]
               /\ err' = IF over
                         THEN Append(err, OverflowEntry(index0, OverflowCount(avail0)))
                         ELSE err
          ELSE /\ ev' = [IdleEvent EXCEPT !.pc = "ret"]
               /\ err' = err
    /\ UNCHANGED <<pw_log_level, log_level, trace_rb, trace_data, have_source,
                   source, eventfds, polled, caller, sl, published, hist,
                   producers>>

\* fwrite(data + offset, n, 1, stderr) of the bytes for positions pos, pos+1, ...
Fwrite(out, data, offset, n, pos) ==
    out \o [i \in 1..n |-> DataEntry(pos + i - 1, data[offset + i - 1])]

\* on_trace_event line 117: the piece up to the end of the storage
on_trace_event_first ==
    /\ ~ReturnPending
    /\ ev.pc = "first"
    /\ err' = Fwrite(err, trace_data, ev.offset, ev.first, ev.index)
    /\ ev' = [ev EXCEPT !.pc = "second"]
    /\ UNCHANGED <<pw_log_level, log_level, trace_rb, trace_data, have_source,
                   source, eventfds, polled, caller, sl, published, hist,
                   producers>>

\* on_trace_event line 119: the length of the wrapped piece, avail - first
SecondLenNone(avail, first) == 0
SecondLen(avail, first) == avail - first

\* on_trace_event line 121: the cursor handed to read_update, index + avail
ReadAdvanceNone(index, avail) == index
ReadAdvancePast(index, avail) == index + avail + 1
ReadAdvance(index, avail) == index + avail

\* on_trace_event lines 118-121: the wrapped piece, then read_update
on_trace_event_second ==
    /\ ~ReturnPending
    /\ ev.pc = "second"
    /\ err' = IF ev.avail > ev.first
              THEN Fwrite(err, trace_data, 0, SecondLen(ev.avail, ev.first),
                          ev.index + ev.first)
              ELSE err
    /\ trace_rb' = spa_ringbuffer_read_update(trace_rb,
                                               ReadAdvance(ev.index, ev.avail))
    /\ ev' = [ev EXCEPT !.pc = "avail"]
    /\ hist' = [hist EXCEPT !.stale_hi =
                    IF ev.index + ev.avail >= @ THEN 0 ELSE @]
    /\ UNCHANGED <<pw_log_level, log_level, trace_data, have_source, source,
                   eventfds, polled, caller, sl, published, producers>>

\* history: the positions below the read cursor are forgotten
Forget(pub, readindex) ==
    [i \in 1..Len(pub) |-> IF i <= readindex THEN "" ELSE pub[i]]

\* on_trace_event returns to the loop (line 123)
on_trace_event_return ==
    /\ ev.pc = "ret"
    /\ ev' = IdleEvent
    /\ err' = <<>>
    /\ hist' = [hist EXCEPT !.r0 = 0, !.w0 = 0, !.quiet = TRUE]
    /\ published' = Forget(published, trace_rb.readindex)
    /\ UNCHANGED <<pw_log_level, log_level, trace_rb, trace_data, have_source,
                   source, eventfds, polled, caller, sl, producers>>

\* ------------------------------------------------ attachment (do_set_loop)
\* where do_set_loop goes at "if (loop)" (line 135)
AfterDetach(loop) == IF loop # NULL THEN "eventfd" ELSE "ret"

\* do_set_loop line 130: if (l->have_source), the detach runs only when armed
DetachAlways(hs) == TRUE
DetachNeeded(hs) == hs

\* pw_log_set_loop lines 183-186 and do_set_loop line 130: the test of
\* have_source
do_set_loop(loop) ==
    /\ ~ReturnPending
    /\ sl.pc = "idle"
    /\ ev.pc = "idle"
    /\ sl' = [pc |-> IF DetachNeeded(have_source) THEN "remove"
                     ELSE AfterDetach(loop),
              loop |-> loop]
    /\ UNCHANGED <<pw_log_level, log_level, trace_rb, trace_data, have_source,
                   source, eventfds, polled, caller, ev, err, published, hist,
                   producers>>

\* spa_loop_remove_source: the loop stops polling the source's descriptor
spa_loop_remove_source(p, loop, src) ==
    IF loop \in Loops /\ src.fd # -1
    THEN [p EXCEPT ![loop] = @ \ {src.fd}]
    ELSE p

\* do_set_loop line 131
do_set_loop_remove ==
    /\ ~ReturnPending
    /\ sl.pc = "remove"
    /\ polled' = spa_loop_remove_source(polled, source.loop, source)
    /\ source' = [source EXCEPT !.loop = NULL]
    /\ sl' = [sl EXCEPT !.pc = "close"]
    /\ UNCHANGED <<pw_log_level, log_level, trace_rb, trace_data, have_source,
                   eventfds, caller, ev, err, published, hist, producers>>

\* close(fd): the descriptor is no longer open; EBADF changes nothing
close(fds, fd) == [f \in DOMAIN fds \ {fd} |-> fds[f]]

\* do_set_loop line 132
do_set_loop_close ==
    /\ ~ReturnPending
    /\ sl.pc = "close"
    /\ eventfds' = close(eventfds, source.fd)
    /\ sl' = [sl EXCEPT !.pc = "clear"]
    /\ UNCHANGED <<pw_log_level, log_level, trace_rb, trace_data, have_source,
                   source, polled, caller, ev, err, published, hist, producers>>

\* do_set_loop lines 133-135: have_source = false, then the test of loop
do_set_loop_clear ==
    /\ ~ReturnPending
    /\ sl.pc = "clear"
    /\ have_source' = FALSE
    /\ sl' = [sl EXCEPT !.pc = AfterDetach(sl.loop)]
    /\ hist' = [hist EXCEPT !.stale_hi =
                    IF trace_rb.readindex < trace_rb.writeindex
                    THEN trace_rb.writeindex ELSE 0]
    /\ UNCHANGED <<pw_log_level, log_level, trace_rb, trace_data, source,
                   eventfds, polled, caller, ev, err, published, producers>>

\* the lowest descriptor number above stderr that is not open
LowestFree(fds) == CHOOSE f \in 3..(3 + Cardinality(DOMAIN fds)) :
    /\ f \notin DOMAIN fds
    /\ \A h \in 3..(f - 1) : h \in DOMAIN fds

\* eventfd(0, EFD_CLOEXEC | EFD_NONBLOCK): a new descriptor with counter 0, or
\* -1 when the descriptor cannot be created
eventfd(fds, ok) == IF ok THEN LowestFree(fds) ELSE -1

\* do_set_loop lines 136-140: the source's fields; the result of eventfd() is
\* stored unchecked
do_set_loop_eventfd(ok) ==
    /\ ~ReturnPending
    /\ sl.pc = "eventfd"
    /\ LET fd == eventfd(eventfds, ok)
       IN /\ source' = [source EXCEPT !.fd = fd]
          /\ eventfds' = IF fd = -1 THEN eventfds
                         ELSE [f \in DOMAIN eventfds \cup {fd} |->
                                  IF f = fd THEN 0 ELSE eventfds[f]]
          /\ hist' = [hist EXCEPT !.fresh = FALSE]
    /\ sl' = [sl EXCEPT !.pc = "add"]
    /\ UNCHANGED <<pw_log_level, log_level, trace_rb, trace_data, have_source,
                   polled, caller, ev, err, published, producers>>

\* spa_loop_add_source: the loop polls the source's descriptor, if it has one
spa_loop_add_source(p, loop, src) ==
    IF src.fd # -1 THEN [p EXCEPT ![loop] = @ \cup {src.fd}] ELSE p

\* do_set_loop line 141
do_set_loop_add ==
    /\ ~ReturnPending
    /\ sl.pc = "add"
    /\ polled' = spa_loop_add_source(polled, sl.loop, source)
    /\ source' = [source EXCEPT !.loop = sl.loop]
    /\ sl' = [sl EXCEPT !.pc = "arm"]
    /\ UNCHANGED <<pw_log_level, log_level, trace_rb, trace_data, have_source,
                   eventfds, caller, ev, err, published, hist, producers>>

\* do_set_loop line 142
do_set_loop_arm ==
    /\ ~ReturnPending
    /\ sl.pc = "arm"
    /\ have_source' = TRUE
    /\ sl' = [sl EXCEPT !.pc = "ret"]
    /\ UNCHANGED <<pw_log_level, log_level, trace_rb, trace_data, source,
                   eventfds, polled, caller, ev, err, published, hist,
                   producers>>

\* do_set_loop returns (line 144)
do_set_loop_return ==
    /\ sl.pc = "ret"
    /\ sl' = IdleSetLoop
    /\ UNCHANGED <<pw_log_level, log_level, trace_rb, trace_data, have_source,
                   source, eventfds, polled, caller, ev, err, published, hist,
                   producers>>

\* ------------------------------------------------------------------ Next
Next ==
    \/ \E t \in ThreadIds, level \in Levels, msg \in Msgs : pw_log_log(t, level, msg)
    \/ \E t \in ThreadIds, g \in Garbage : do_logv_write(t, g)
    \/ \E t \in ThreadIds : do_logv_update(t)
    \/ \E t \in ThreadIds : do_logv_signal(t)
    \/ \E t \in ThreadIds : pw_log_return(t)
    \/ \E level \in Levels : pw_log_set_level(level)
    \/ \E ok \in BOOLEAN : on_trace_event_read(ok)
    \/ on_trace_event_avail
    \/ on_trace_event_first
    \/ on_trace_event_second
    \/ on_trace_event_return
    \/ \E loop \in {NULL} \cup Loops : do_set_loop(loop)
    \/ do_set_loop_remove
    \/ do_set_loop_close
    \/ do_set_loop_clear
    \/ \E ok \in BOOLEAN : do_set_loop_eventfd(ok)
    \/ do_set_loop_add
    \/ do_set_loop_arm
    \/ do_set_loop_return

Spec == Init /\ [][Next]_vars

\* The same steps with trace calls only and the threshold set to trace, and
\* with the scheduling the delivery of a record relies on: a thread inside a
\* call keeps running, and the loop dispatches a readable source.  The steps
\* are strongly fair because a pending return of another thread holds them
\* back for one step at a time.
ProducerStep ==
    \/ \E t \in ThreadIds, g \in Garbage : do_logv_write(t, g)
    \/ \E t \in ThreadIds : do_logv_update(t)
    \/ \E t \in ThreadIds : do_logv_signal(t)
    \/ \E t \in ThreadIds : pw_log_return(t)

ConsumerStep ==
    \/ \E ok \in BOOLEAN : on_trace_event_read(ok)
    \/ on_trace_event_avail
    \/ on_trace_event_first
    \/ on_trace_event_second
    \/ on_trace_event_return

SetLoopStep ==
    \/ do_set_loop_remove
    \/ do_set_loop_close
    \/ do_set_loop_clear
    \/ \E ok \in BOOLEAN : do_set_loop_eventfd(ok)
    \/ do_set_loop_add
    \/ do_set_loop_arm
    \/ do_set_loop_return

NextLive ==
    \/ \E t \in ThreadIds, msg \in Msgs : pw_log_log(t, SPA_LOG_LEVEL_TRACE, msg)
    \/ pw_log_set_level(SPA_LOG_LEVEL_TRACE)
    \/ \E loop \in {NULL} \cup Loops : do_set_loop(loop)
    \/ ProducerStep
    \/ ConsumerStep
    \/ SetLoopStep

\* The trace calls of several threads, interleaved at every step, in an
\* application that attaches a loop once and never detaches it, before the
\* loop dispatches the trace source
NextMP ==
    \/ \E t \in ThreadIds, msg \in Msgs : pw_log_log(t, SPA_LOG_LEVEL_TRACE, msg)
    \/ pw_log_set_level(SPA_LOG_LEVEL_TRACE)
    \/ \E loop \in Loops : ~have_source /\ do_set_loop(loop)
    \/ ProducerStep
    \/ \E ok \in BOOLEAN : do_set_loop_eventfd(ok)
    \/ do_set_loop_add
    \/ do_set_loop_arm
    \/ do_set_loop_return

SpecMP == InitMP /\ [][NextMP]_vars

SpecLive ==
    /\ Init
    /\ [][NextLive]_vars
    /\ SF_vars(ProducerStep)
    /\ SF_vars(ConsumerStep)
    /\ SF_vars(SetLoopStep)


\* ---------------------------------------------------------------- claims
\* the bytes among the entries of a stderr history
RECURSIVE Bytes(_)
Bytes(e) ==
    IF e = <<>> THEN <<>>
    ELSE (IF e[1].k = "data" THEN <<e[1].b>> ELSE <<>>) \o Bytes(Tail(e))

Overflows(e) == {i \in 1..Len(e) : e[i].k = "overflow"}

\* the dispatch that has just ended began with no producer on the trace path
\* and none entered it since
QuietDispatch == ev.pc = "ret" /\ hist.quiet

\* C1: a dispatch that begins with at most TRACE_BUFFER unread bytes, all
\* published before it, writes exactly the bytes published at the unread
\* positions, in order, reports no overflow, and ends with
\* readindex = writeindex
C1_DrainInOrder ==
    (QuietDispatch /\ hist.w0 - hist.r0 <= rb_size) =>
        /\ Bytes(err) = SubSeq(published, hist.r0 + 1, hist.w0)
        /\ Overflows(err) = {}
        /\ trace_rb.readindex = trace_rb.writeindex
        /\ trace_rb.writeindex = hist.w0

\* C1 witness: such a dispatch of two or more bytes that straddle the end of
\* the storage
C1_Witness ==
    /\ QuietDispatch
    /\ hist.w0 - hist.r0 <= rb_size
    /\ BitAnd(hist.r0, rb_mask) + (hist.w0 - hist.r0) > rb_size
    /\ Len(Bytes(err)) = hist.w0 - hist.r0

\* C2: a dispatch that begins with more than TRACE_BUFFER unread bytes, all
\* published before it, reports the overflow and then writes exactly the last
\* TRACE_BUFFER bytes published, in order, and ends with readindex = writeindex
C2_OverflowKeepsLast ==
    (QuietDispatch /\ hist.w0 - hist.r0 > rb_size) =>
        /\ \E i \in Overflows(err) :
              /\ Bytes(SubSeq(err, 1, i)) = <<>>
              /\ Bytes(SubSeq(err, i + 1, Len(err)))
                    = SubSeq(published, hist.w0 - rb_size + 1, hist.w0)
              /\ err[i + 1].pos = hist.w0 - rb_size
        /\ trace_rb.readindex = trace_rb.writeindex
        /\ trace_rb.writeindex = hist.w0

\* C2 witness: a dispatch that found more than TRACE_BUFFER unread bytes has ended
C2_Witness ==
    /\ QuietDispatch
    /\ hist.w0 - hist.r0 > rb_size
    /\ Len(Bytes(err)) = rb_size

\* C3 (as the specification states it): the number in an overflow report is
\* the number of bytes lost, the distance from the read cursor to the
\* position the output resumes at
C3_ReportCountsLost ==
    \A i \in Overflows(err) :
        (i < Len(err) /\ err[i + 1].k = "data") =>
            err[i].n = err[i + 1].pos - err[i].pos

C5_RingOnlyArmedTrace ==
    [][\A t \in ThreadIds :
        caller'[t] # caller[t] =>
            \/ UNCHANGED <<trace_rb, trace_data, eventfds>>
            \/ /\ caller[t].level = SPA_LOG_LEVEL_TRACE
               /\ caller[t].seen_source]_vars

\* C5 witness: a non-trace call has returned while the log is armed and the ring
\* holds unread bytes
C5_Witness ==
    /\ caller[1].pc = "ret"
    /\ caller[1].enabled
    /\ caller[1].level # SPA_LOG_LEVEL_TRACE
    /\ have_source
    /\ trace_rb.writeindex > trace_rb.readindex

\* C6: a non-trace call at level L under the threshold C of the last
\* pw_log_set_level returns having written nothing when L > C and exactly one
\* line, labelled with L, when L <= C
C6_LevelFilter ==
    [][\A t \in ThreadIds :
        (/\ caller[t].pc = "idle" /\ caller'[t].pc # "idle"
         /\ caller'[t].level # SPA_LOG_LEVEL_TRACE) =>
            /\ caller'[t].pc = "ret"
            /\ IF caller'[t].level <= hist.threshold
               THEN /\ Len(caller'[t].out) = 1
                    /\ caller'[t].out[1][1] = levels[caller'[t].level + 1]
               ELSE caller'[t].out = <<>>]_vars

\* C6 witness: a warn call has returned with its line under a threshold set to warn
C6_Witness ==
    /\ caller[1].pc = "ret"
    /\ caller[1].level = 2
    /\ hist.threshold = 2
    /\ caller[1].out = <<(<<"W", "a">>)>>

\* the loops that poll a descriptor
Registered == {l \in Loops : polled[l] # {}}

\* C7 (as the specification states it): at most one loop holds the source;
\* between calls of pw_log_set_loop one wakeup descriptor is open when armed
\* and none when not, and armed holds exactly when a source is registered; a
\* new source is added only after the old one is removed and closed
C7_AttachmentInvariant ==
    /\ Cardinality(Registered) <= 1
    /\ \A l \in Loops : Cardinality(polled[l]) <= 1
    /\ sl.pc = "idle" =>
          /\ Cardinality(DOMAIN eventfds) = (IF have_source THEN 1 ELSE 0)
          /\ have_source <=> Registered # {}
    /\ sl.pc = "add" => (Registered = {} /\ DOMAIN eventfds \subseteq {source.fd})

\* C8 (as the specification states it): an attach whose eventfd() failed ends
\* not armed, with no source registered
C8_FailedAttachNotArmed ==
    (sl.pc = "ret" /\ sl.loop # NULL /\ source.fd = -1) =>
        (~have_source /\ Registered = {})

\* C9 (as the specification states it): no byte that was unread at a detach
\* is written to stderr afterwards
C9_StaleDiscarded ==
    \A i \in 1..Len(err) :
        err[i].k = "data" => err[i].pos >= hist.stale_hi

\* the source is armed and a loop polls its open wakeup descriptor
Attached ==
    /\ have_source
    /\ source.fd \in DOMAIN eventfds
    /\ \E l \in Loops : source.fd \in polled[l]

\* no call of the producers, the consumer or pw_log_set_loop is in progress
Quiescent ==
    /\ ev.pc = "idle"
    /\ sl.pc = "idle"
    /\ \A t \in ThreadIds : ~InTracePath(t)

\* a record published since the attach is unread
FreshUnread ==
    Attached /\ hist.fresh /\ trace_rb.readindex < trace_rb.writeindex

\* C10: while attached, a record published since the attach is never left
\* unread with the wakeup counter at zero and nothing in progress, and it is
\* eventually read past (written or skipped with an overflow report) unless
\* the log is detached
C10_NoLostWakeup ==
    /\ []((Quiescent /\ FreshUnread) => eventfds[source.fd] > 0)
    /\ (FreshUnread ~> (trace_rb.readindex = trace_rb.writeindex \/ ~Attached))

\* C10 witness: after attach, detach and attach again, a dispatch has ended
\* having written a record published since the last attach
C10_Witness ==
    /\ ev.pc = "ret"
    /\ Attached
    /\ hist.fresh
    /\ hist.w0 > hist.r0
    /\ Bytes(err) # <<>>
    /\ trace_rb.readindex = trace_rb.writeindex

\* no overflow since the dispatch began: the bytes published above the read
\* cursor it started from do not exceed the capacity
NoOverflow == trace_rb.writeindex - hist.r0 <= rb_size

Copied(t) == caller[t].pc \in {"update", "signal"}

Range(t) == caller[t].index .. (caller[t].index + caller[t].size - 1)

\* C12 (as the specification states it): with several threads on the armed
\* trace path, the records they have copied occupy disjoint cursor ranges and
\* the write cursor never moves backwards
C12_ProducersDisjoint ==
    /\ [](\A t1, t2 \in producers :
            t1 # t2 /\ Copied(t1) /\ Copied(t2) => Range(t1) \cap Range(t2) = {})
    /\ [][trace_rb'.writeindex >= trace_rb.writeindex]_vars

\* C13 (as the specification states it): the size a trace call copies into
\* the ring and adds to the write cursor never exceeds the line buffer
C13_SizeWithinLine ==
    \A t \in ThreadIds : InTracePath(t) => caller[t].size <= LINE_SIZE

\* C14 (as the specification states it): for every interleaving of one
\* producer and the consumer, every byte the consumer has written in a
\* dispatch is the byte published at its cursor position, the positions
\* strictly increase, and every range skipped is preceded by an overflow
\* report
C14_SinkSubsequence ==
    /\ \A i \in 1..Len(err) :
          err[i].k = "data" => err[i].b = published[err[i].pos + 1]
    /\ \A i, j \in 1..Len(err) :
          (i < j /\ err[i].k = "data" /\ err[j].k = "data") => err[i].pos < err[j].pos
    /\ \A j \in 2..Len(err) :
          (err[j].k = "data" /\ err[j - 1].k = "data") => err[j].pos = err[j - 1].pos + 1

\* C15: every pass of the drain loop moves the read cursor strictly forward,
\* the loop is left exactly when no unread byte remains, the read cursor then
\* equals the write cursor, and every dispatch that has started returns
C15_DispatchTerminates ==
    /\ [][(ev.pc = "second" /\ ev'.pc = "avail")
            => trace_rb'.readindex > trace_rb.readindex]_vars
    /\ [][(ev.pc = "avail" /\ ev'.pc # "avail")
            => (ev'.pc = "ret" <=> trace_rb.writeindex - trace_rb.readindex <= 0)]_vars
    /\ [](ev.pc = "ret" => trace_rb.readindex = trace_rb.writeindex)
    /\ (ev.pc # "idle") ~> (ev.pc = "idle")

\* a dispatch is about to return after the producer published during it and
\* the loop went round again for the new record
C15_Witness ==
    /\ ev.pc = "ret"
    /\ ~hist.quiet
    /\ trace_rb.readindex > hist.w0

\* the dispatch began with a failed read of the wakeup descriptor
ReadFailed == err # <<>> /\ err[1].k = "readfail"

\* C16: a dispatch whose read of the wakeup descriptor failed reports the
\* failure once and then drains as after a successful read: it ends with
\* readindex = writeindex, and when no producer ran during it, it has written
\* the unread bytes (the last TRACE_BUFFER of them after an overflow)
C16_ReadFailureDrains ==
    (ev.pc = "ret" /\ ReadFailed) =>
        /\ \A i \in 2..Len(err) : err[i].k # "readfail"
        /\ trace_rb.readindex = trace_rb.writeindex
        /\ (hist.quiet /\ hist.w0 - hist.r0 <= rb_size) =>
              /\ Bytes(err) = SubSeq(published, hist.r0 + 1, hist.w0)
              /\ Overflows(err) = {}
        /\ (hist.quiet /\ hist.w0 - hist.r0 > rb_size) =>
              /\ Overflows(err) # {}
              /\ Bytes(err) = SubSeq(published, hist.w0 - rb_size + 1, hist.w0)

\* a dispatch whose read failed has drained unread bytes and is about to
\* return
C16_Witness ==
    /\ ev.pc = "ret"
    /\ ReadFailed
    /\ hist.quiet
    /\ hist.w0 > hist.r0
    /\ Len(Bytes(err)) = hist.w0 - hist.r0

\* the cursor position p is the start of a published record or the end of
\* the published bytes: a value the write cursor has had
RecordBoundary(p) == p = Len(published) \/ published[p + 1] = levels[7]

\* C17: with one producer and one consumer, neither cursor ever decreases,
\* the read cursor never passes the write cursor, and the consumer moves the
\* read cursor only to a value the write cursor has had
C17_CursorsOrdered ==
    /\ [][/\ trace_rb'.readindex >= trace_rb.readindex
          /\ trace_rb'.writeindex >= trace_rb.writeindex]_vars
    /\ [](trace_rb.readindex <= trace_rb.writeindex)
    /\ [][trace_rb'.readindex # trace_rb.readindex
            => RecordBoundary(trace_rb.readindex)']_vars

\* the consumer has moved the read cursor inside a dispatch and the producer
\* has published beyond it since
C17_Witness ==
    /\ ev.pc = "avail"
    /\ trace_rb.readindex > hist.r0
    /\ trace_rb.readindex < trace_rb.writeindex

\* C18 (as the specification states it, for a descriptor eventfd() has
\* created): whenever a trace call raises the wakeup while pw_log_set_loop
\* runs or has run, the descriptor it writes to is open, not one a detach has
\* closed
C18_SignalOpenDescriptor ==
    [][\A t \in ThreadIds :
          (caller[t].pc = "signal" /\ caller'[t].pc = "ret" /\ source.fd # -1)
              => source.fd \in DOMAIN eventfds]_vars

\* what a detach can touch: the armed flag, the source, the descriptors, the
\* loops' poll sets and the ring
Attachment == <<have_source, source, eventfds, polled, trace_rb, trace_data>>

\* C19: pw_log_set_loop(NULL) called while nothing is attached goes straight
\* to its return and removes nothing, closes nothing and leaves have_source,
\* the source's fields and the cursors as they were
C19_DetachDetachedNoOp ==
    /\ [][(sl.pc = "idle" /\ sl'.pc # "idle" /\ sl'.loop = NULL /\ ~have_source)
            => (sl'.pc = "ret" /\ Attachment' = Attachment)]_vars
    /\ [][(sl.pc = "ret" /\ sl'.pc = "idle" /\ sl.loop = NULL)
            => Attachment' = Attachment]_vars

\* pw_log_set_loop(NULL) is about to return in a process that never attached
\* a loop
C19_Witness ==
    /\ sl.pc = "ret"
    /\ sl.loop = NULL
    /\ ~have_source
    /\ source.fd = 0
    /\ DOMAIN eventfds = {}

\* the label a rendered line begins with
Label(c) == c.location[1]

\* C20: a call that passed the filter renders its line with a label of the
\* table; the label is *T* exactly when the level is trace and the call saw
\* the log armed; a *T* line goes to the ring and never to standard output;
\* every other line goes to standard output with the plain label of its own
\* level
C20_TraceLabel ==
    \A t \in ThreadIds :
        LET c == caller[t]
        IN c.enabled =>
            /\ Label(c) \in {levels[i] : i \in 1..Len(levels)}
            /\ Label(c) = levels[7] <=>
                  (c.level = SPA_LOG_LEVEL_TRACE /\ c.seen_source)
            /\ Label(c) = levels[7] =>
                  /\ c.out = <<>>
                  /\ c.pc \in {"write", "update", "signal", "ret"}
                  /\ c.do_trace
            /\ Label(c) # levels[7] =>
                  /\ c.pc = "ret"
                  /\ c.out = <<c.location>>
                  /\ Label(c) = levels[c.level + 1]

\* a trace call that saw the log armed has put its *T* record in the ring
\* and is about to return
C20_Witness ==
    /\ caller[1].pc = "ret"
    /\ caller[1].enabled
    /\ caller[1].do_trace
    /\ Label(caller[1]) = levels[7]
    /\ trace_rb.writeindex > 0

====
